---- MODULE Spec2Model ----
\* A model of gcode_generator.py: the module globals (the instruction file
\* named by `filename`, the list `move_log`), the functions that write to them
\* (write_header, rapid_move, slow_move_z, slow_move_x, angular_move,
\* plot_moves) and the control flow of main(), one step per call.
\*
\* Numbers.  Python floats are binary floating point: every arithmetic result
\* is the exact result rounded to the nearest representable value, ties to
\* even.  The model keeps that rounding and narrows the format: a value is an
\* integer count of 1/Unit inch, representable when it has at most MantBits
\* significant bits (53 in the interpreter).
EXTENDS Integers, Sequences, FiniteSets, TLC

\* ---------------------------------------------------------------- bounds
MantBits == 4
FracBits == 4
MaxRuns == 2

\* ------------------------------------------------------- float arithmetic
Unit == 2 ^ FracBits

Abs(v) == IF v < 0 THEN -v ELSE v

Sign(v) == IF v < 0 THEN -1 ELSE 1

RECURSIVE ExpOf(_)
\* Exponent of the binade of a non-negative magnitude q: the number of low
\* bits a MantBits-bit significand cannot hold.
ExpOf(q) == IF q < 2 ^ MantBits THEN 0 ELSE 1 + ExpOf(q \div 2)

\* Distance between neighbouring representable values at the magnitude of v.
Ulp(v) == 2 ^ ExpOf(Abs(v))

\* num/den (den > 0, num >= 0) rounded to the nearest representable value,
\* ties to the even significand.
RoundMag(num, den) ==
    LET step == 2 ^ ExpOf(num \div den)
        d    == den * step
        m    == num \div d
        r2   == 2 * (num - m * d)
        up   == r2 > d \/ (r2 = d /\ m % 2 = 1)
    IN  (IF up THEN m + 1 ELSE m) * step

\* num/den rounded, any signs, den # 0.
FRound(num, den) == Sign(num) * Sign(den) * RoundMag(Abs(num), Abs(den))

FAdd(a, b) == FRound(a + b, 1)

FSub(a, b) == FRound(a - b, 1)

\* int * float: the int converts exactly, the product is rounded.
FMulInt(k, a) == FRound(k * a, 1)

\* float / float, divisor # 0 (a zero divisor raises ZeroDivisionError, which
\* the callers model).
FDiv(a, b) == FRound(a * Unit, b)

\* int(x): truncation toward zero.
IntTrunc(v) == Sign(v) * (Abs(v) \div Unit)

\* format(x, ".4f"): the value in ten-thousandths, rounded half to even.
Fmt4(v) ==
    LET n  == Abs(v) * 10000
        q  == n \div Unit
        r2 == 2 * (n - q * Unit)
        up == r2 > Unit \/ (r2 = Unit /\ q % 2 = 1)
    IN  Sign(v) * (IF up THEN q + 1 ELSE q)

\* math.tan(math.radians(angle_deg)) for the angles the model uses, as the
\* representable value nearest to the tangent (given in 1/1024).  At 90
\* degrees the interpreter's tangent is finite and huge (1.6e16); at 0 it is
\* exactly 0.0.
TanFix(angle_deg) ==
    CASE angle_deg = -30 -> -591
      [] angle_deg = 0   -> 0
      [] angle_deg = 30  -> 591
      [] angle_deg = 56  -> 1518
      [] angle_deg = 120 -> -1774

Tan(angle_deg) ==
    IF angle_deg = 90 THEN Unit * 2 ^ 12
    ELSE FRound(TanFix(angle_deg) * Unit, 2 ^ 10)

\* ------------------------------------------------------ configurable params
\* The fixed parameters, in 1/Unit inch.
blade_width_in == 3 * Unit

wax_width_in == 2 * Unit

z_clearance_height_in == Unit \div 2

cut_speed_ipm == Unit

\* The parameters a job varies; every value is a representable float.
WaxLengths == {4, 13, 24}

RetractHeights == {1, 3}

CutDepths == {2, 18}

CutSpacings == {0, 5, 12}

CutAngles == {-30, 0, 30, 56, 90, 120}

Configs ==
    [wax_length_in : WaxLengths, z_retract_height_in : RetractHeights,
     cut_depth_in : CutDepths, cut_spacing_in : CutSpacings,
     cut_angle_deg : CutAngles]

DefaultConfig ==
    [wax_length_in |-> 24, z_retract_height_in |-> 1, cut_depth_in |-> 2,
     cut_spacing_in |-> 12, cut_angle_deg |-> 56]

\* Arguments of a direct call of angular_move.
CallXs == {0, 5, 20}

CallZs == {-3, 0, 3, 18}

CallDepths == {-4, 0, 3, 20}

\* ------------------------------------------------------------------ state
VARIABLES
    cfg,          \* the configurable params of this process
    file,         \* the file `filename`: [exists, lines]
    move_log,     \* the module global move_log
    pc,           \* position in main(), or in a direct use of angular_move
    i,            \* main's loop variable
    n,            \* the argument of range() in main
    retracted_x,  \* main's local
    inserted,     \* main's (inserted_x_pos, inserted_z_pos); <<>> when unset
    last,         \* main's (last_x, last_z); <<>> when unset
    err,          \* the exception that ended the current run, "" when none
    plotted,      \* the segments plot_moves drew last
    runs,         \* calls of main() so far in this process
    log_base,     \* history: len(move_log) when the current run started
    calls         \* history: every angular_move call, its arguments and outcome

vars ==
    <<cfg, file, move_log, pc, i, n, retracted_x, inserted, last, err,
      plotted, runs, log_base, calls>>

\* ------------------------------------------------------------ file output
Line(text, args) == [text |-> text, args |-> args]

NoFile == [exists |-> FALSE, lines |-> <<>>]

\* write(lines): open(filename, 'a') creates the file when it is missing and
\* appends.
Write(f, lines) == [exists |-> TRUE, lines |-> f.lines \o lines]

\* main, lines 151-152: os.remove when the file exists.
RemoveIfExists_keep(f) == f

RemoveIfExists(f) == IF f.exists THEN NoFile ELSE f

HeaderLines ==
    << Line("G00", <<>>), Line("G90 G94 G17", <<>>), Line("G20", <<>>),
       Line("G28 G91 Z0.", <<>>), Line("G90", <<>>), Line("M09", <<>>),
       Line("G00 G54", <<>>) >>

RapidLines(x, y, z) ==
    << Line("G00 X Y", <<Fmt4(x), Fmt4(y)>>), Line("G43 Z H01", <<Fmt4(z)>>) >>

SlowZLines(z, speed) == << Line("G01 Z F", <<Fmt4(z), Fmt4(speed)>>) >>

SlowXLines(x, speed) == << Line("G01 X F", <<Fmt4(x), Fmt4(speed)>>) >>

AngularLines(target_x, target_z) ==
    << Line("G01 X Z F.", <<Fmt4(target_x), Fmt4(target_z), cut_speed_ipm>>) >>

\* ----------------------------------------------------------------- move log
\* A log entry (x, z, type); a coordinate is <<v>>, or <<>> for None.
Entry(x, z, type) == [x |-> x, z |-> z, type |-> type]

RapidEntry(x, z) == Entry(<<x>>, <<z>>, "rapid")

SlowZEntry(z) == Entry(<<>>, <<z>>, "slow")

SlowXEntry_rapid(x) == Entry(<<x>>, <<>>, "rapid")

SlowXEntry(x) == Entry(<<x>>, <<>>, "slow")

MoveType(down) == IF down THEN "cut" ELSE "retract"

AngularEntry(target_x, target_z, down) ==
    Entry(<<target_x>>, <<target_z>>, MoveType(down))

LogAppend_dropslow(log, e) == IF e.type = "slow" THEN log ELSE Append(log, e)

\* move_log.append(...)
LogAppend(log, e) == Append(log, e)

\* ------------------------------------------------------------ angular_move
\* Line 88 divides by the tangent: a zero tangent raises ZeroDivisionError.
Raises(angle_deg) == Tan(angle_deg) = 0

\* Lines 87-91: dz = abs(z_depth); dx = dz / tan; negated when not down.
SignedDx_keep(dx, down) == dx

SignedDx(dx, down) == IF down THEN dx ELSE -dx

AngularDx(angle_deg, z_depth, down) ==
    SignedDx(FDiv(Abs(z_depth), Tan(angle_deg)), down)

\* Line 92: z_depth = -z_depth when not down.
SignedDepth_keep(z_depth, down) == z_depth

SignedDepth(z_depth, down) == IF down THEN z_depth ELSE -z_depth

\* Lines 94-95.
TargetX(angle_deg, current_x, z_depth, down) ==
    FAdd(current_x, AngularDx(angle_deg, z_depth, down))

TargetZ(current_z, z_depth, down) ==
    FSub(current_z, SignedDepth(z_depth, down))

\* One call, as the history records it.
CallRecord(by, angle_deg, current_x, current_z, z_depth, down, at) ==
    [by |-> by, angle_deg |-> angle_deg, current_x |-> current_x,
     current_z |-> current_z, z_depth |-> z_depth, down |-> down, at |-> at,
     raised |-> IF Raises(angle_deg) THEN "ZeroDivisionError" ELSE "",
     ret |-> IF Raises(angle_deg) THEN <<>>
             ELSE << TargetX(angle_deg, current_x, z_depth, down),
                     TargetZ(current_z, z_depth, down) >>]

\* The effect of angular_move on the file, the log and the call history; the
\* caller says where the return value goes.
AngularMove(by, angle_deg, current_x, current_z, z_depth, down) ==
    LET c == CallRecord(by, angle_deg, current_x, current_z, z_depth, down,
                        Len(move_log))
    IN  /\ calls' = Append(calls, c)
        /\ IF c.raised # ""
           THEN UNCHANGED <<file, move_log>>
           ELSE /\ file' = Write(file, AngularLines(c.ret[1], c.ret[2]))
                /\ move_log' =
                       LogAppend(move_log,
                                 AngularEntry(c.ret[1], c.ret[2], down))

\* -------------------------------------------------------------- plot_moves
PlotLimit == 50

Min(a, b) == IF a < b THEN a ELSE b

\* The loop of lines 112-136 from entry k on: a missing coordinate is taken
\* from the previous segment's end.
RECURSIVE PlotFrom(_, _, _, _)
PlotFrom(log, k, last_x, last_z) ==
    IF k > Min(Len(log), PlotLimit) THEN <<>>
    ELSE LET x == IF log[k].x # <<>> THEN log[k].x[1] ELSE last_x
             z == IF log[k].z # <<>> THEN log[k].z[1] ELSE last_z
         IN  << [x0 |-> last_x, z0 |-> last_z, x1 |-> x, z1 |-> z,
                 type |-> log[k].type] >>
             \o PlotFrom(log, k + 1, x, z)

\* Line 111: the first segment starts at (0.0, 0.0).
PlotSegments(log) == PlotFrom(log, 1, 0, 0)

\* -------------------------------------------------------------------- main
\* Line 155.
YPosition ==
    FSub(-FDiv(blade_width_in, 2 * Unit), FDiv(wax_width_in, 2 * Unit))

\* Line 161: int(wax_length_in / cut_spacing_in), for a non-zero spacing.
CutCount(c) == IntTrunc(FDiv(c.wax_length_in, c.cut_spacing_in))

\* Lines 173, 182: cut_depth_in + z_retract_height_in.
ZDepth(c) == FAdd(c.cut_depth_in, c.z_retract_height_in)

\* Line 162.
RetractedX(k, c) == FMulInt(k, c.cut_spacing_in)

\* Lines 171-172: the start position main passes to the plunge.
PlungeStartZ_clearance(c) == z_clearance_height_in

PlungeStartZ(c) == c.z_retract_height_in

\* An output file left by an earlier process.
OldFile == Write(Write(NoFile, HeaderLines),
                 RapidLines(0, YPosition, z_clearance_height_in))

Init ==
    /\ \/ /\ pc = "idle"
          /\ cfg \in Configs
          /\ file \in {NoFile, OldFile}
       \/ /\ pc = "test"
          /\ cfg = DefaultConfig
          /\ file = NoFile
    /\ move_log = <<>>
    /\ i = 0
    /\ n = 0
    /\ retracted_x = 0
    /\ inserted = <<>>
    /\ last = <<>>
    /\ err = ""
    /\ plotted = <<>>
    /\ runs = 0
    /\ log_base = 0
    /\ calls = <<>>

\* main() is called: lines 151-152.
MainStart ==
    /\ pc \in {"idle", "done", "error"}
    /\ runs < MaxRuns
    /\ runs' = runs + 1
    /\ log_base' = Len(move_log)
    /\ file' = RemoveIfExists(file)
    /\ i' = 0
    /\ n' = 0
    /\ retracted_x' = 0
    /\ inserted' = <<>>
    /\ last' = <<>>
    /\ err' = ""
    /\ pc' = "header"
    /\ UNCHANGED <<cfg, move_log, plotted, calls>>

\* Line 153: write_header().
WriteHeader ==
    /\ pc = "header"
    /\ file' = Write(file, HeaderLines)
    /\ pc' = "rapid"
    /\ UNCHANGED <<cfg, move_log, i, n, retracted_x, inserted, last, err,
                   plotted, runs, log_base, calls>>

\* Line 157: rapid_move(0, y_position, z_clearance_height_in).
RapidMove ==
    /\ pc = "rapid"
    /\ file' = Write(file, RapidLines(0, YPosition, z_clearance_height_in))
    /\ move_log' = LogAppend(move_log, RapidEntry(0, z_clearance_height_in))
    /\ pc' = "slowz"
    /\ UNCHANGED <<cfg, i, n, retracted_x, inserted, last, err, plotted, runs,
                   log_base, calls>>

\* Line 158: slow_move_z(z_retract_height_in, 25).
SlowMoveZ ==
    /\ pc = "slowz"
    /\ file' = Write(file, SlowZLines(cfg.z_retract_height_in, 25 * Unit))
    /\ move_log' = LogAppend(move_log, SlowZEntry(cfg.z_retract_height_in))
    /\ pc' = "range"
    /\ UNCHANGED <<cfg, i, n, retracted_x, inserted, last, err, plotted, runs,
                   log_base, calls>>

\* Line 161 with cut_spacing_in = 0: the division raises.
RangeRaises ==
    /\ pc = "range"
    /\ cfg.cut_spacing_in = 0
    /\ err' = "ZeroDivisionError"
    /\ pc' = "error"
    /\ UNCHANGED <<cfg, file, move_log, i, n, retracted_x, inserted, last,
                   plotted, runs, log_base, calls>>

\* Line 161: the range is built once.
RangeOk ==
    /\ pc = "range"
    /\ cfg.cut_spacing_in # 0
    /\ n' = CutCount(cfg)
    /\ i' = 0
    /\ pc' = "loop"
    /\ UNCHANGED <<cfg, file, move_log, retracted_x, inserted, last, err,
                   plotted, runs, log_base, calls>>

\* Lines 162-166: the next iteration; slow_move_x(retracted_x, 1).
LoopNext ==
    /\ pc = "loop"
    /\ i < n
    /\ retracted_x' = RetractedX(i, cfg)
    /\ file' = Write(file, SlowXLines(retracted_x', 1 * Unit))
    /\ move_log' = LogAppend(move_log, SlowXEntry(retracted_x'))
    /\ pc' = "plunge"
    /\ UNCHANGED <<cfg, i, n, inserted, last, err, plotted, runs, log_base,
                   calls>>

\* The range is exhausted.
LoopExit ==
    /\ pc = "loop"
    /\ i >= n
    /\ pc' = "plot"
    /\ UNCHANGED <<cfg, file, move_log, i, n, retracted_x, inserted, last, err,
                   plotted, runs, log_base, calls>>

\* Lines 169-175.
Plunge ==
    /\ pc = "plunge"
    /\ AngularMove("main", cfg.cut_angle_deg, retracted_x, PlungeStartZ(cfg),
                   ZDepth(cfg), TRUE)
    /\ LET c == calls'[Len(calls')]
       IN  IF c.raised # ""
           THEN /\ err' = c.raised
                /\ pc' = "error"
                /\ UNCHANGED inserted
           ELSE /\ inserted' = c.ret
                /\ pc' = "retract"
                /\ UNCHANGED err
    /\ UNCHANGED <<cfg, i, n, retracted_x, last, plotted, runs, log_base>>

\* Lines 178-184, and the end of the iteration.
Retract ==
    /\ pc = "retract"
    /\ AngularMove("main", cfg.cut_angle_deg, inserted[1], inserted[2],
                   ZDepth(cfg), FALSE)
    /\ LET c == calls'[Len(calls')]
       IN  IF c.raised # ""
           THEN /\ err' = c.raised
                /\ pc' = "error"
                /\ UNCHANGED <<last, i>>
           ELSE /\ last' = c.ret
                /\ i' = i + 1
                /\ pc' = "loop"
                /\ UNCHANGED err
    /\ UNCHANGED <<cfg, n, retracted_x, inserted, plotted, runs, log_base>>

\* Line 186: plot_moves() reads the log and leaves it alone.
PlotMoves ==
    /\ pc = "plot"
    /\ plotted' = PlotSegments(move_log)
    /\ pc' = "done"
    /\ UNCHANGED <<cfg, file, move_log, i, n, retracted_x, inserted, last, err,
                   runs, log_base, calls>>

\* ------------------------------------------ angular_move called directly
TestPlunge ==
    /\ pc = "test"
    /\ \E a \in CutAngles, x \in CallXs, z \in CallZs, d \in CallDepths :
           AngularMove("test", a, x, z, d, TRUE)
    /\ LET c == calls'[Len(calls')]
       IN  IF c.raised # ""
           THEN /\ err' = c.raised
                /\ pc' = "test_error"
                /\ UNCHANGED inserted
           ELSE /\ inserted' = c.ret
                /\ pc' = "test_plunged"
                /\ UNCHANGED err
    /\ UNCHANGED <<cfg, i, n, retracted_x, last, plotted, runs, log_base>>

\* The retract of the same cut: same angle and depth, from the plunge's end.
TestRetract ==
    /\ pc = "test_plunged"
    /\ LET p == calls[Len(calls)]
       IN  AngularMove("test", p.angle_deg, inserted[1], inserted[2],
                       p.z_depth, FALSE)
    /\ last' = calls'[Len(calls')].ret
    /\ pc' = "test_done"
    /\ UNCHANGED <<cfg, i, n, retracted_x, inserted, err, plotted, runs,
                   log_base>>

\* A retract on its own.
TestRetractOnly ==
    /\ pc = "test"
    /\ \E a \in CutAngles, x \in CallXs, z \in CallZs, d \in CallDepths :
           AngularMove("test", a, x, z, d, FALSE)
    /\ LET c == calls'[Len(calls')]
       IN  IF c.raised # ""
           THEN /\ err' = c.raised
                /\ pc' = "test_error"
                /\ UNCHANGED last
           ELSE /\ last' = c.ret
                /\ pc' = "test_done"
                /\ UNCHANGED err
    /\ UNCHANGED <<cfg, i, n, retracted_x, inserted, plotted, runs, log_base>>

Next ==
    \/ MainStart
    \/ WriteHeader
    \/ RapidMove
    \/ SlowMoveZ
    \/ RangeRaises
    \/ RangeOk
    \/ LoopNext
    \/ LoopExit
    \/ Plunge
    \/ Retract
    \/ PlotMoves
    \/ TestPlunge
    \/ TestRetract
    \/ TestRetractOnly

Spec == Init /\ [][Next]_vars

\* ------------------------------------------------------- shared vocabulary
InRun == pc \in {"header", "rapid", "slowz", "range", "loop", "plunge",
                 "retract", "plot", "done", "error"}

\* The entries the current run appended.
RunLog == SubSeq(move_log, log_base + 1, Len(move_log))

\* The coordinate in force after entry k: the last one given at or before k,
\* <<>> when none was.
RECURSIVE ResolveX(_, _)
ResolveX(log, k) ==
    IF k = 0 THEN <<>>
    ELSE IF log[k].x # <<>> THEN log[k].x ELSE ResolveX(log, k - 1)

RECURSIVE ResolveZ(_, _)
ResolveZ(log, k) ==
    IF k = 0 THEN <<>>
    ELSE IF log[k].z # <<>> THEN log[k].z ELSE ResolveZ(log, k - 1)

\* a and b differ by at most one unit in the last place at magnitude m.
Near(a, b, m) == Abs(a - b) <= Ulp(m)

IsPrefix(s, t) == Len(s) <= Len(t) /\ SubSeq(t, 1, Len(s)) = s

\* Call k is a plunge that returned and call k + 1 the retract of the same
\* cut: same angle and depth, started where the plunge ended.
CutCycle(k) ==
    /\ k + 1 <= Len(calls)
    /\ calls[k].down /\ ~calls[k + 1].down
    /\ calls[k].raised = "" /\ calls[k + 1].raised = ""
    /\ calls[k + 1].angle_deg = calls[k].angle_deg
    /\ calls[k + 1].z_depth = calls[k].z_depth
    /\ <<calls[k + 1].current_x, calls[k + 1].current_z>> = calls[k].ret

\* The horizontal displacement magnitude of call k.
CallDx(k) == FDiv(Abs(calls[k].z_depth), Tan(calls[k].angle_deg))

ValidArgs(c) == c.angle_deg > 0 /\ c.angle_deg <= 90 /\ c.z_depth >= 0

\* ---------------------------------------------------------------- claims

\* C1 (as stated): a plunge then a retract with the same angle and
\* z_depth >= 0 ends at the original z and at X = x + 2*dx.
C1_RoundTripAdvances ==
    \A k \in 1..Len(calls) :
        (CutCycle(k) /\ calls[k].z_depth >= 0) =>
            /\ calls[k + 1].ret[2] = calls[k].current_z
            /\ calls[k + 1].ret[1] =
                   FAdd(calls[k].current_x, FMulInt(2, CallDx(k)))

\* C1 (amended): a plunge then a retract with the same angle and z_depth
\* retraces the diagonal: it ends at the start position, X = x and Z = z, up
\* to one unit in the last place of |x| + dx and of |z| + |z_depth|; the net
\* lateral advance of a cut cycle is zero.
C1_RoundTripReturns ==
    \A k \in 1..Len(calls) :
        CutCycle(k) =>
            /\ Near(calls[k + 1].ret[1], calls[k].current_x,
                    FAdd(Abs(calls[k].current_x), Abs(CallDx(k))))
            /\ Near(calls[k + 1].ret[2], calls[k].current_z,
                    FAdd(Abs(calls[k].current_z), Abs(calls[k].z_depth)))

\* C1 witness: a direct plunge/retract pair with a lateral displacement of
\* at least 5/Unit has come back to where it started.
C1_Witness ==
    /\ pc = "test_done"
    /\ CutCycle(1)
    /\ calls[1].z_depth > 0
    /\ CallDx(1) >= 5
    /\ calls[2].ret = <<calls[1].current_x, calls[1].current_z>>

\* C2 (as stated): every log entry resolves both coordinates from the log up
\* to it, and the start position main passes to each angular_move equals the
\* resolved end position of the log entry before it.
C2_ConnectedExactly ==
    /\ \A k \in 1..Len(move_log) :
           ResolveX(move_log, k) # <<>> /\ ResolveZ(move_log, k) # <<>>
    /\ \A k \in 1..Len(calls) :
           calls[k].by = "main" =>
               /\ calls[k].at >= 1
               /\ <<calls[k].current_x>> = ResolveX(move_log, calls[k].at)
               /\ <<calls[k].current_z>> = ResolveZ(move_log, calls[k].at)

\* C2 (amended): every log entry resolves both coordinates from the log up
\* to it; the start position main passes to each angular_move equals the
\* resolved end of the log entry before it in X exactly, and in Z up to one
\* unit in the last place of retract_height + z_depth.
C2_ConnectedUpToRounding ==
    /\ \A k \in 1..Len(move_log) :
           ResolveX(move_log, k) # <<>> /\ ResolveZ(move_log, k) # <<>>
    /\ \A k \in 1..Len(calls) :
           calls[k].by = "main" =>
               /\ calls[k].at >= 1
               /\ <<calls[k].current_x>> = ResolveX(move_log, calls[k].at)
               /\ ResolveZ(move_log, calls[k].at) # <<>>
               /\ Near(calls[k].current_z,
                       ResolveZ(move_log, calls[k].at)[1],
                       FAdd(Abs(cfg.z_retract_height_in), Abs(ZDepth(cfg))))

\* C2 witness: main is in its second cycle or later, past the plunge, and the
\* plunge started exactly where the log stood.
C2_Witness ==
    /\ pc = "retract"
    /\ i >= 1
    /\ calls[Len(calls)].by = "main"
    /\ <<calls[Len(calls)].current_z>> =
           ResolveZ(move_log, calls[Len(calls)].at)

\* C3 (as stated): when main completes a plan of N cycles the log holds
\* exactly 2 + 2N entries.
C3_TwoPerCycle == pc = "done" => Len(move_log) = 2 + 2 * n

\* C3 (amended): when main completes a plan of N cycles it has appended
\* exactly 2 + 3N entries to the log: the two setup moves and three entries
\* (lateral step, plunge, retract) per cycle.
C3_ThreePerCycle == pc = "done" => Len(move_log) - log_base = 2 + 3 * n

\* C3 witness: a run of at least two cycles has completed.
C3_Witness == pc = "done" /\ n >= 2 /\ Len(RunLog) = 2 + 3 * n

\* C4: during a planning run the file is absent or empty, or begins with one
\* copy of the preamble followed only by move lines; and once write_header
\* has run the preamble is there.
HeaderTexts == {HeaderLines[k].text : k \in 1..Len(HeaderLines)}

PreambleOnce(f) ==
    /\ Len(f.lines) >= Len(HeaderLines)
    /\ SubSeq(f.lines, 1, Len(HeaderLines)) = HeaderLines
    /\ \A k \in (Len(HeaderLines) + 1)..Len(f.lines) :
           f.lines[k].text \notin HeaderTexts

C4_PreambleOnce ==
    InRun =>
        /\ (~file.exists \/ file.lines = <<>> \/ PreambleOnce(file))
        /\ pc # "header" => (file.exists /\ PreambleOnce(file))

\* C4 witness: a run that found the previous run's file has written moves.
C4_Witness ==
    /\ runs = 2
    /\ pc = "plot"
    /\ Len(file.lines) > Len(HeaderLines) + 3
    /\ PreambleOnce(file)

\* C5: angular_move fails with a DomainError, and returns nothing, whenever
\* angle_deg <= 0 or angle_deg > 90 or z_depth < 0.
C5_DomainError ==
    \A k \in 1..Len(calls) :
        ~ValidArgs(calls[k]) =>
            calls[k].raised = "DomainError" /\ calls[k].ret = <<>>

\* C6: a run whose cut count floor(material_length / cut_spacing) is 0 ends
\* in a ConfigurationError and never completes normally.
C6_ZeroCutsRejected ==
    (/\ pc \in {"done", "error"}
     /\ cfg.cut_spacing_in > 0
     /\ cfg.wax_length_in \div cfg.cut_spacing_in = 0)
        => (pc = "error" /\ err = "ConfigurationError")

\* C7: when a run ends in an error the file holds no instruction: it is
\* absent or empty.
C7_NoPartialOutput ==
    pc = "error" => (~file.exists \/ file.lines = <<>>)

\* The exact vertical target of call c.
ExactTargetZ(c) ==
    IF c.down THEN c.current_z - c.z_depth ELSE c.current_z + c.z_depth

\* The lateral displacement of call c has the sign its direction dictates.
DxSignOk(c) ==
    IF c.down THEN c.ret[1] >= c.current_x ELSE c.ret[1] <= c.current_x

\* C8 (as stated): for a valid angle and z_depth >= 0 angular_move returns
\* target_z with |target_z - current_z| = z_depth exactly, below current_z and
\* with target_x >= current_x when down, above and with target_x <= current_x
\* otherwise; in main every plunge ends at z = -cut_depth and every retract at
\* z = retract_height.
C8_DepthExact ==
    \A k \in 1..Len(calls) :
        LET c == calls[k]
        IN  (ValidArgs(c) /\ c.raised = "") =>
                /\ Abs(c.ret[2] - c.current_z) = c.z_depth
                /\ c.ret[2] = ExactTargetZ(c)
                /\ DxSignOk(c)
                /\ (c.by = "main" /\ c.down) => c.ret[2] = -cfg.cut_depth_in
                /\ (c.by = "main" /\ ~c.down) =>
                       c.ret[2] = cfg.z_retract_height_in

\* C8 (amended): for a valid angle and z_depth >= 0 angular_move returns as
\* target_z the float nearest to current_z - z_depth (down) or
\* current_z + z_depth (up), so |target_z - current_z| is z_depth up to half a
\* unit in the last place of target_z, with target_x >= current_x when down
\* and target_x <= current_x otherwise; in main every plunge ends at
\* -cut_depth and every retract at retract_height up to one unit in the last
\* place of retract_height + z_depth.
C8_DepthRounded ==
    \A k \in 1..Len(calls) :
        LET c == calls[k]
            m == FAdd(Abs(cfg.z_retract_height_in), Abs(ZDepth(cfg)))
        IN  (ValidArgs(c) /\ c.raised = "") =>
                /\ 2 * Abs(c.ret[2] - ExactTargetZ(c)) <= Ulp(c.ret[2])
                /\ DxSignOk(c)
                /\ (c.by = "main" /\ c.down) =>
                       Near(c.ret[2], -cfg.cut_depth_in, m)
                /\ (c.by = "main" /\ ~c.down) =>
                       Near(c.ret[2], cfg.z_retract_height_in, m)

\* C8 witness: main has finished a cut at a valid angle whose plunge ended
\* off -cut_depth by rounding, after a direct call or not.
C8_Witness ==
    /\ pc = "loop"
    /\ i >= 1
    /\ ValidArgs(calls[Len(calls)])
    /\ calls[Len(calls) - 1].ret[2] # -cfg.cut_depth_in
    /\ calls[Len(calls)].ret[2] > calls[Len(calls) - 1].ret[2]

\* The file's lines from line j on are the lines of log entries k, k+1, ...
\* in order: two lines for a rapid, one for any other move, with the entry's
\* coordinates as formatted.
RECURSIVE LinesMatch(_, _, _, _)
LinesMatch(log, k, lines, j) ==
    IF k > Len(log) THEN j > Len(lines)
    ELSE LET e == log[k]
         IN  IF e.type = "rapid"
             THEN /\ j + 1 <= Len(lines)
                  /\ lines[j].text = "G00 X Y"
                  /\ lines[j].args[1] = Fmt4(e.x[1])
                  /\ lines[j + 1].text = "G43 Z H01"
                  /\ lines[j + 1].args[1] = Fmt4(e.z[1])
                  /\ LinesMatch(log, k + 1, lines, j + 2)
             ELSE /\ j <= Len(lines)
                  /\ IF e.x = <<>>
                     THEN /\ lines[j].text = "G01 Z F"
                          /\ lines[j].args[1] = Fmt4(e.z[1])
                     ELSE IF e.z = <<>>
                     THEN /\ lines[j].text = "G01 X F"
                          /\ lines[j].args[1] = Fmt4(e.x[1])
                     ELSE /\ lines[j].text = "G01 X Z F."
                          /\ lines[j].args[1] = Fmt4(e.x[1])
                          /\ lines[j].args[2] = Fmt4(e.z[1])
                  /\ LinesMatch(log, k + 1, lines, j + 1)

\* C9: at the end of each run the log holds only that run's moves: it matches
\* the file entry for entry, and the plot shows no move of an earlier run.
C9_LogFreshPerRun ==
    pc = "done" =>
        /\ Len(move_log) = Len(RunLog)
        /\ LinesMatch(move_log, 1, file.lines, Len(HeaderLines) + 1)
        /\ Len(plotted) = Len(RunLog)

\* The shape of one run's log: rapid, Z-only descent, then per cycle an X-only
\* step to i * cut_spacing, a plunge and a retract.
RunShape(log, count) ==
    /\ Len(log) = 2 + 3 * count
    /\ log[1].type = "rapid" /\ log[1].x # <<>> /\ log[1].z # <<>>
    /\ log[2].type = "slow" /\ log[2].x = <<>> /\ log[2].z # <<>>
    /\ \A k \in 0..(count - 1) :
           /\ log[3 + 3 * k].type = "slow"
           /\ log[3 + 3 * k].x = <<FMulInt(k, cfg.cut_spacing_in)>>
           /\ log[3 + 3 * k].z = <<>>
           /\ log[4 + 3 * k].type = "cut"
           /\ log[5 + 3 * k].type = "retract"
    /\ \A k \in 2..Len(log) : log[k].type # "rapid"
    /\ \A k \in 0..(count - 2) :
           log[3 + 3 * k].x[1] < log[3 + 3 * (k + 1)].x[1]

\* The steps a run in progress still has to take: three per cycle not yet
\* begun, and the statements around the loop.
StepsLeft ==
    LET cycles == IF cfg.cut_spacing_in = 0 THEN 0 ELSE CutCount(cfg)
    IN  CASE pc = "header"  -> 3 * cycles + 6
          [] pc = "rapid"   -> 3 * cycles + 5
          [] pc = "slowz"   -> 3 * cycles + 4
          [] pc = "range"   -> 3 * cycles + 3
          [] pc = "loop"    -> 3 * (cycles - i) + 2
          [] pc = "plunge"  -> 3 * (cycles - i) + 1
          [] pc = "retract" -> 3 * (cycles - i)
          [] pc = "plot"    -> 1
          [] OTHER          -> 0

\* C10: the log a run produces has the shape above with cut_count cycles,
\* reached after exactly cut_count iterations; the log only ever grows by
\* appending, and plot_moves leaves it as it is; every step of a run in
\* progress brings it closer to its end, which it reaches after at most
\* 3 * cut_count + 6 steps.
C10_RunShape ==
    /\ [](pc = "done" => (i = n /\ RunShape(RunLog, n)))
    /\ [](StepsLeft >= 0)
    /\ [][IsPrefix(move_log, move_log')]_vars
    /\ [][pc = "plot" => move_log' = move_log]_vars
    /\ [][(InRun /\ pc \notin {"done", "error"}) => StepsLeft' < StepsLeft]_vars

\* C10 witness: a run of at least three cycles has been plotted.
C10_Witness ==
    /\ pc = "done"
    /\ n >= 3
    /\ RunShape(RunLog, n)
    /\ Len(plotted) >= 2 + 3 * n

====
